---- MODULE Spec2Model ----
(***************************************************************************)
(* vinolite: the dashboard loop of src/tui.rs (`run`), the statistics      *)
(* extractor of src/db_stats.rs (`query_structure`, `Format::from_str`)    *)
(* and the tail of src/main.rs (`main`), as a state machine.               *)
(*                                                                         *)
(* One action is one step of `run`: the construction of the View, one      *)
(* `terminal.draw`, or one iteration of the inner input loop (which takes  *)
(* the View lock at its top and drops it at its end).                      *)
(*                                                                         *)
(* Strings whose characters the code inspects (declared column types) are  *)
(* sequences of one-character strings.                                     *)
(***************************************************************************)
EXTENDS Integers, Sequences, FiniteSets, TLC

\* ------------------------------------------------------------------ bounds

\* The largest number of tables a database of the model holds.
MaxTables == 2

\* The largest number of VACUUM commands one session of the model executes.
MaxVacuums == 2

\* ------------------------------------------------------ Format (db_stats.rs)

UpperChars == <<"A", "B", "C", "D", "E", "F", "G", "H", "I", "J", "K", "L", "M", "N", "O", "P", "Q", "R", "S", "T", "U", "V", "W", "X", "Y", "Z">>

LowerChars == <<"a", "b", "c", "d", "e", "f", "g", "h", "i", "j", "k", "l", "m", "n", "o", "p", "q", "r", "s", "t", "u", "v", "w", "x", "y", "z">>

\* A bug to_ascii_lowercase's use could have: the input compared as given.
to_ascii_lowercase_Missing(s) == s

\* str::to_ascii_lowercase: A-Z mapped to a-z, every other character kept.
to_ascii_lowercase(s) ==
    [i \in 1..Len(s) |->
        IF \E j \in 1..26 : UpperChars[j] = s[i]
        THEN LowerChars[CHOOSE j \in 1..26 : UpperChars[j] = s[i]]
        ELSE s[i]]

\* str::starts_with
starts_with(s, prefix) ==
    Len(prefix) <= Len(s) /\ SubSeq(s, 1, Len(prefix)) = prefix

\* The alias lists of Format::from_str, in their order.
formats ==
    << [name |-> "Integer",
        definitions |-> <<<<"i", "n", "t", "e", "g", "e", "r">>,
                          <<"t", "i", "n", "y", "i", "n", "t">>,
                          <<"s", "m", "a", "l", "l", "i", "n", "t">>,
                          <<"m", "e", "d", "i", "u", "m", "i", "n", "t">>,
                          <<"b", "i", "g", "i", "n", "t">>,
                          <<"u", "n", "s", "i", "g", "n", "e", "d", " ", "b", "i", "g", " ", "i", "n", "t">>,
                          <<"i", "n", "t", "2">>,
                          <<"i", "n", "t", "8">>>>],
       [name |-> "Numeric",
        definitions |-> <<<<"n", "u", "m", "e", "r", "i", "c">>,
                          <<"d", "a", "t", "e">>>>],
       [name |-> "Real",
        definitions |-> <<<<"r", "e", "a", "l">>,
                          <<"f", "l", "o", "a", "t">>,
                          <<"d", "o", "u", "b", "l", "e">>,
                          <<"d", "e", "c", "i", "m", "a", "l">>>>],
       [name |-> "Boolean",
        definitions |-> <<<<"b", "o", "o", "l", "e", "a", "n">>>>],
       [name |-> "Text",
        definitions |-> <<<<"t", "e", "x", "t">>,
                          <<"c", "h", "a", "r">>,
                          <<"v", "a", "r", "c", "h", "a", "r">>,
                          <<"v", "a", "r", "y", "i", "n", "g", " ", "c", "h", "a", "r", "a", "c", "t", "e", "r">>,
                          <<"n", "c", "h", "a", "r">>,
                          <<"n", "a", "t", "i", "v", "e", " ", "c", "h", "a", "r", "a", "c", "t", "e", "r">>,
                          <<"n", "v", "a", "r", "c", "h", "a", "r">>,
                          <<"c", "l", "o", "b">>,
                          <<"t", "i", "m", "e", "s", "t", "a", "m", "p">>>>],
       [name |-> "Blob",
        definitions |-> <<<<"b", "l", "o", "b">>>>] >>

\* The inner loop of from_str over one variant's definitions.
MatchesAny(format, definitions) ==
    \E i \in 1..Len(definitions) :
        starts_with(definitions[i], format) \/ starts_with(format, definitions[i])

\* A bug from_str could have: the variants tried in the reverse order.
from_str_LastMatch(s) ==
    LET format == to_ascii_lowercase(s)
        hits   == { i \in 1..Len(formats) : MatchesAny(format, formats[i].definitions) }
    IN  IF hits = {} THEN [ok |-> FALSE, format |-> "Invalid"]
        ELSE [ok     |-> TRUE,
              format |-> formats[CHOOSE i \in hits : \A j \in hits : i >= j].name]

\* Format::from_str: the first variant, in order, one of whose definitions
\* is a prefix of the lowercased input or has it as a prefix; else an error.
from_str(s) ==
    LET format == to_ascii_lowercase(s)
        hits   == { i \in 1..Len(formats) : MatchesAny(format, formats[i].definitions) }
    IN  IF hits = {} THEN [ok |-> FALSE, format |-> "Invalid"]
        ELSE [ok     |-> TRUE,
              format |-> formats[CHOOSE i \in hits : \A j \in hits : i <= j].name]

\* --------------------------------------------------------------- databases

\* What the engine holds for one table: row count, page bytes, its columns
\* (declared type, summed value length) and its indexes (page bytes), and
\* which of the queries on it succeed. The first is a table without rows.
Shapes ==
    { [name |-> 0, rows |-> 0, size |-> 4096,
       columns |-> <<[name |-> "id", type |-> <<"I", "N", "T", "E", "G", "E", "R">>,
                      length |-> 0, length_ok |-> TRUE]>>,
       indexes |-> <<>>,
       rows_ok |-> TRUE, info |-> "ok", list_ok |-> TRUE],
      [name |-> 0, rows |-> 100, size |-> 8192,
       columns |-> <<[name |-> "id", type |-> <<"i", "n", "t", "e", "g", "e", "r">>,
                      length |-> 300, length_ok |-> TRUE],
                     [name |-> "title", type |-> <<"T", "e", "x", "t">>,
                      length |-> 700, length_ok |-> TRUE]>>,
       indexes |-> <<[name |-> "idx", size |-> 4096, size_ok |-> TRUE]>>,
       rows_ok |-> TRUE, info |-> "ok", list_ok |-> TRUE] }

\* The tables of a database holding n tables, in the engine's enumeration
\* order: each has the content of a shape, and its row count query succeeds
\* or fails.
RawTables(n) ==
    IF n = 0 THEN {<<>>}
    ELSE { [i \in 1..n |-> [f[i][1] EXCEPT !.name = i, !.rows_ok = f[i][2]]] :
           f \in [1..n -> Shapes \X BOOLEAN] }

\* The contents the database file can have when it is queried; `dbstat_ok`
\* is whether the first query (dbstat joined with sqlite_schema) succeeds.
Databases ==
    { [dbstat_ok |-> b, tables |-> t] :
      b \in BOOLEAN, t \in UNION { RawTables(n) : n \in 0..MaxTables } }

\* A declared type no alias matches.
Geometry == <<"g", "e", "o", "m", "e", "t", "r", "y">>

\* A table content with at most one thing wrong: one failing query, one row
\* without an expected field, or one column of an unknown declared type.
Variants(s) ==
    {s}
    \cup { [s EXCEPT !.rows_ok = FALSE], [s EXCEPT !.list_ok = FALSE] }
    \cup { [s EXCEPT !.info = x] : x \in {"fails", "no_field"} }
    \cup { [s EXCEPT !.columns[i].type = Geometry] : i \in DOMAIN s.columns }
    \cup { [s EXCEPT !.columns[i].length_ok = FALSE] : i \in DOMAIN s.columns }
    \cup { [s EXCEPT !.indexes[i].size_ok = FALSE] : i \in DOMAIN s.indexes }

\* The databases the extractor is checked on alone: every table healthy or
\* wrong in one way.
ExtractDatabases ==
    { [dbstat_ok |-> b, tables |-> t] :
      b \in BOOLEAN,
      t \in UNION { IF n = 0 THEN {<<>>}
                    ELSE { [i \in 1..n |-> [f[i] EXCEPT !.name = i]] :
                           f \in [1..n -> UNION { Variants(s) : s \in Shapes }] } :
                    n \in 0..MaxTables } }

\* ------------------------------------------------- query_structure (db_stats.rs)

Err == [ok |-> FALSE, tables |-> <<>>]

Ok(ts) == [ok |-> TRUE, tables |-> ts]

\* The columns as query_structure pushes them: name, resolved format, length.
RECURSIVE Columns(_)
Columns(raw) ==
    IF raw = <<>> THEN <<>>
    ELSE <<[name   |-> Head(raw).name,
            format |-> from_str(Head(raw).type).format,
            length |-> Head(raw).length]>> \o Columns(Tail(raw))

\* The indexes as query_structure pushes them: name and size.
RECURSIVE Indexes(_)
Indexes(raw) ==
    IF raw = <<>> THEN <<>>
    ELSE <<[name |-> Head(raw).name, size |-> Head(raw).size]>> \o Indexes(Tail(raw))

\* struct Table, as query_structure pushes it.
Table(raw) ==
    [name |-> raw.name, rows |-> raw.rows, size |-> raw.size,
     columns |-> Columns(raw.columns), indexes |-> Indexes(raw.indexes)]

\* Whether every `?` of one pass of the loop over tables_raw gets an Ok: the
\* row count, the column introspection and each row's fields, each declared
\* type, each column's length, the index list, each index's size.
TableQueriesOk(raw) ==
    /\ raw.rows_ok
    /\ raw.info = "ok"
    /\ \A i \in DOMAIN raw.columns : from_str(raw.columns[i].type).ok
    /\ \A i \in DOMAIN raw.columns : raw.columns[i].length_ok
    /\ raw.list_ok
    /\ \A i \in DOMAIN raw.indexes : raw.indexes[i].size_ok

\* A bug the loop could have: a table with a failing query is skipped, and
\* the tables read so far and after it are returned.
RECURSIVE ExtractTables_SkipsFailed(_, _)
ExtractTables_SkipsFailed(raw, acc) ==
    IF raw = <<>> THEN Ok(acc)
    ELSE IF ~TableQueriesOk(Head(raw)) THEN ExtractTables_SkipsFailed(Tail(raw), acc)
    ELSE ExtractTables_SkipsFailed(Tail(raw), Append(acc, Table(Head(raw))))

\* The loop over tables_raw: every query is followed by `?`, so the first
\* table with a failure aborts the whole extraction.
RECURSIVE ExtractTables(_, _)
ExtractTables(raw, acc) ==
    IF raw = <<>> THEN Ok(acc)
    ELSE IF ~TableQueriesOk(Head(raw)) THEN Err
    ELSE ExtractTables(Tail(raw), Append(acc, Table(Head(raw))))

query_structure(db) ==
    IF ~db.dbstat_ok THEN Err ELSE ExtractTables(db.tables, <<>>)

\* ------------------------------------------------------------------ tui.rs

RECURSIVE SumSizes(_)
SumSizes(ixs) == IF ixs = <<>> THEN 0 ELSE Head(ixs).size + SumSizes(Tail(ixs))

table_size(t) == t.size + SumSizes(t.indexes)

RECURSIVE SumTableSizes(_)
SumTableSizes(ts) ==
    IF ts = <<>> THEN 0 ELSE table_size(Head(ts)) + SumTableSizes(Tail(ts))

RECURSIVE SumLengths(_)
SumLengths(cols) ==
    IF cols = <<>> THEN 0 ELSE Head(cols).length + SumLengths(Tail(cols))

Pages == {"TablesChart", "TableDetails", "VacuumQuestion", "VacuumProgress"}

\* The key codes `run` matches on; every other key and every non-key event
\* is "Other".
Keys == {"q", "v", "Enter", "Left", "Right", "Up", "Down"}

\* The widths the drawing area can have: too narrow for one bar slot, and
\* wide enough for 1 .. MaxTables slots.
Widths == {5} \cup { 6 * n : n \in 1..MaxTables }

\* The heights the drawing area can have: the chart region left above the
\* footer line and the five lines of the bottom panel has 3, 4 or 10 rows.
Heights == {9, 10, 16}

VARIABLES
    page,               \* View::page
    tables,             \* View::tables
    selected_table,     \* View::selected_table
    total_tables_size,  \* run's local, computed once before the loop
    lock,               \* whether the View's spin lock is held
    frame,              \* what the last completed terminal.draw rendered
    database,           \* the content of the database at its last extraction
    pc,                 \* where the program is
    result,             \* what run returns
    event,              \* the outcome of the last event::poll / event::read
    vacuums,            \* number of database.execute("VACUUM") calls so far
    queries,            \* number of query_structure calls so far
    arg,                \* the argument of a function called on its own
    ret                 \* <<what that call returned>>, <<>> before it returns

view == <<page, tables, selected_table>>

\* The variables of a call of a function on its own.
call == <<arg, ret>>

vars == <<page, tables, selected_table, total_tables_size, lock, frame, database,
          pc, result, event, vacuums, queries, arg, ret>>

NoFrame == [page |-> "None", top |-> 0, bars |-> <<>>, zero_division |-> FALSE]

TypeOK ==
    /\ page \in Pages
    /\ selected_table \in Nat
    /\ total_tables_size \in Nat
    /\ lock \in BOOLEAN
    /\ frame.page \in Pages \cup {"None"}
    /\ frame.zero_division \in BOOLEAN
    /\ database \in Databases
    /\ pc \in {"run", "draw", "input", "restore", "exit", "panicked"}
    /\ result \in {"Running", "Ok", "QueryFailure", "VacuumFailure",
                   "RenderFailure", "InputFailure"}
    /\ event \in Keys \cup {"None", "Timeout", "Other", "Failed"}
    /\ vacuums \in 0..MaxVacuums
    /\ queries \in 0..(MaxVacuums + 1)

\* The state in which main calls run, before the database is looked at.
Entry ==
    /\ page = "TablesChart"
    /\ tables = <<>>
    /\ selected_table = 0
    /\ total_tables_size = 0
    /\ lock = FALSE
    /\ frame = NoFrame
    /\ pc = "run"
    /\ result = "Running"
    /\ event = "None"
    /\ vacuums = 0
    /\ queries = 0

\* main has opened the connection and initialised the terminal and calls run.
Init ==
    /\ Entry
    /\ database \in Databases
    /\ arg = <<>>
    /\ ret = <<>>

\* A bug Fail could have: the error is dropped and the step is tried again.
Fail_Retry(e) == pc' = pc /\ result' = result

\* `?` on a failed call: run returns the error to main.
Fail(e) == pc' = "restore" /\ result' = e

\* The construction of the View and of total_tables_size.
RunInit ==
    /\ pc = "run"
    /\ queries' = queries + 1
    /\ LET r == query_structure(database) IN
       IF r.ok
       THEN /\ page' = "TablesChart"
            /\ tables' = r.tables
            /\ selected_table' = 0
            /\ total_tables_size' = SumTableSizes(r.tables)
            /\ pc' = "draw"
            /\ result' = result
       ELSE /\ Fail("QueryFailure")
            /\ UNCHANGED <<view, total_tables_size>>
    /\ lock' = FALSE
    /\ UNCHANGED <<frame, database, event, vacuums, call>>

\* A bug a step could have: its guard of the View outlives the step.
WithLock_Kept == lock = FALSE /\ lock' = TRUE

\* view.lock() at the top of a step and the drop of the guard at its end,
\* on every way out of it. A held spin lock is spun on for ever.
WithLock == lock = FALSE /\ lock' = FALSE

\* View::table(): an index out of bounds panics.
TablePanics == selected_table >= Len(tables)

\* Whether the draw closure reaches a view.table() call on this page.
DrawReadsTable == page \in {"TablesChart", "TableDetails"}

\* (real_table_fraction * 100.0).round(), rounding half away from zero; -1
\* stands for the NaN of a zero total.
Percent(size, total) ==
    IF total = 0 THEN -1 ELSE (200 * size + total) \div (2 * total)

\* The height of top_area: the drawing area less the footer line
\* (Length(1)) and the bottom panel (Length(5)), as far as there is room.
ChartHeight(height) ==
    LET area == IF height >= 1 THEN height - 1 ELSE 0
    IN  IF area >= 5 THEN area - 5 ELSE 0

\* log2 of a byte count in thousandths; the byte counts of the databases
\* are whole pages of 4096 bytes, so log2 is 12 plus log2 of the page count.
PageLog2 == <<0, 1000, 1585, 2000, 2322, 2585, 2807, 3000, 3170, 3322, 3459, 3585>>

Log2Milli(bytes) == 12000 + PageLog2[bytes \div 4096]

\* The rows Layout::vertical gives the Ratio(table_ratio, u32::MAX) segment
\* of a bar area of top rows: top * log2(size) / log2(total) to the nearest
\* row; the cast to u32 turns a negative or NaN fraction into 0 and one
\* above 1 into u32::MAX.
RatioHeight(top, size, total) ==
    IF size = 0 \/ total = 0 THEN 0
    ELSE IF size >= total THEN top
    ELSE (2 * top * Log2Milli(size) + Log2Milli(total)) \div (2 * Log2Milli(total))

\* Whether `bar_area.y -= 4 - bar_area.height` goes below zero: the segment
\* of h rows sits at the bottom of the top rows, at y = top - h.
ClampUnderflows(top, h) == h < 4 /\ top - h < 4 - h

\* bar_area.y after the clamp, as a u16: a build without overflow checks
\* wraps it.
ClampY(top, h) == IF h < 4 THEN (top - h - (4 - h)) % 65536 ELSE top - h

\* A bug the chart could have: the selection compared with the slot number
\* counted from one.
Bars_SelectionShifted(width, height) ==
    LET bars_per_page == width \div 6
        shown == IF bars_per_page < Len(tables) THEN bars_per_page ELSE Len(tables)
        top   == ChartHeight(height)
    IN  [i \in 1..shown |->
            LET h == RatioHeight(top, table_size(tables[i]), total_tables_size) IN
            [label    |-> Percent(table_size(tables[i]), total_tables_size),
             selected |-> (selected_table = i),
             y        |-> ClampY(top, h),
             height   |-> IF h < 4 THEN 4 ELSE h]]

\* The bars of the TablesChart page: one per slot of 6 columns while there
\* are tables, each with its percentage label and whether it is drawn in the
\* style of the selected table.
Bars(width, height) ==
    LET bars_per_page == width \div 6
        shown == IF bars_per_page < Len(tables) THEN bars_per_page ELSE Len(tables)
        top   == ChartHeight(height)
    IN  [i \in 1..shown |->
            LET h == RatioHeight(top, table_size(tables[i]), total_tables_size) IN
            [label    |-> Percent(table_size(tables[i]), total_tables_size),
             selected |-> (selected_table = i - 1),
             y        |-> ClampY(top, h),
             height   |-> IF h < 4 THEN 4 ELSE h]]

\* Whether the draw of the chart on this area makes a clamp that goes below
\* zero.
Underflows(width, height) ==
    /\ page = "TablesChart"
    /\ \E i \in 1..Len(tables) :
          /\ i <= width \div 6
          /\ ClampUnderflows(ChartHeight(height),
                RatioHeight(ChartHeight(height), table_size(tables[i]), total_tables_size))

\* Whether the rows of a sub-table of the TableDetails page are computed by
\* dividing by a total of zero (x / total and log2(x) / log2(total)).
ZeroDivision(rows, total) == rows # <<>> /\ total = 0

\* What the draw closure renders of the View on a drawing area of this
\* width and height.
Rendered(width, height) ==
    [page |-> page,
     top  |-> ChartHeight(height),
     bars |-> IF page = "TablesChart" THEN Bars(width, height) ELSE <<>>,
     zero_division |->
        /\ page = "TableDetails"
        /\ ~TablePanics
        /\ LET t == tables[selected_table + 1] IN
           \/ ZeroDivision(t.columns, SumLengths(t.columns))
           \/ ZeroDivision(t.indexes, SumSizes(t.indexes))]

\* One terminal.draw: the closure locks the View and renders the page. A
\* clamp that goes below zero panics in a build with overflow checks and
\* wraps in a build without them.
Draw ==
    /\ pc = "draw"
    /\ WithLock
    /\ \/ /\ DrawReadsTable /\ TablePanics
          /\ pc' = "panicked"
          /\ result' = result
          /\ frame' = frame
       \/ /\ \E width \in Widths, height \in Heights : Underflows(width, height)
          /\ pc' = "panicked"
          /\ result' = result
          /\ frame' = frame
       \/ /\ ~(DrawReadsTable /\ TablePanics)
          /\ \E width \in Widths, height \in Heights : frame' = Rendered(width, height)
          /\ pc' = "input"
          /\ result' = result
       \/ /\ ~(DrawReadsTable /\ TablePanics)
          /\ Fail("RenderFailure")
          /\ frame' = frame
    /\ UNCHANGED <<view, total_tables_size, database, event, vacuums, queries, call>>

\* `break` out of the inner loop: back to terminal.draw.
Break == pc' = "draw" /\ result' = result

\* A bug KeyQ could have: the two 'q' arms in the other order, so that the
\* unguarded arm always wins.
KeyQ_AlwaysQuits ==
    UNCHANGED view /\ pc' = "restore" /\ result' = "Ok"

\* A bug KeyQ could have: the unguarded 'q' arm missing, so that 'q' outside
\* the question falls through to `_ => ()`.
KeyQ_NeverQuits ==
    /\ page' = IF page = "VacuumQuestion" THEN "TablesChart" ELSE page
    /\ UNCHANGED <<tables, selected_table>>
    /\ Break

\* KeyCode::Char('q'): cancel the question, else return Ok(()).
KeyQ ==
    IF page = "VacuumQuestion"
    THEN page' = "TablesChart" /\ UNCHANGED <<tables, selected_table>> /\ Break
    ELSE UNCHANGED view /\ pc' = "restore" /\ result' = "Ok"

\* A bug KeyV could have: opening the question also resets the selection.
KeyV_ResetsSelection ==
    /\ page' = "VacuumQuestion"
    /\ selected_table' = 0
    /\ tables' = tables
    /\ Break

\* KeyCode::Char('v')
KeyV ==
    page' = "VacuumQuestion" /\ UNCHANGED <<tables, selected_table>> /\ Break

\* A bug KeyEnter could have: the first arm without its page guard.
KeyEnter_Unguarded ==
    page' = "VacuumProgress" /\ UNCHANGED <<tables, selected_table>> /\ Break

\* KeyCode::Enter, both arms: the guarded one comes first.
KeyEnter ==
    /\ page' = CASE page = "VacuumQuestion" -> "VacuumProgress"
                 [] page = "TablesChart"    -> "TableDetails"
                 [] page = "TableDetails"   -> "TablesChart"
                 [] OTHER                   -> page
    /\ UNCHANGED <<tables, selected_table>>
    /\ Break

\* KeyCode::Left
KeyLeft ==
    /\ selected_table' = IF selected_table > 0 THEN selected_table - 1
                         ELSE selected_table
    /\ UNCHANGED <<page, tables>>
    /\ Break

\* A bug KeyRight could have: the bound off by one.
KeyRight_OffByOne ==
    /\ selected_table' = IF selected_table < Len(tables) THEN selected_table + 1
                         ELSE selected_table
    /\ UNCHANGED <<page, tables>>
    /\ Break

\* KeyCode::Right
KeyRight ==
    /\ selected_table' = IF selected_table + 1 < Len(tables) THEN selected_table + 1
                         ELSE selected_table
    /\ UNCHANGED <<page, tables>>
    /\ Break

\* A bug KeyUp could have: switching the page like Enter does.
KeyUp_Toggles ==
    /\ page' = CASE page = "TableDetails" -> "TablesChart"
                 [] page = "TablesChart"  -> "TableDetails"
                 [] OTHER                 -> page
    /\ UNCHANGED <<tables, selected_table>>
    /\ Break

\* KeyCode::Up
KeyUp ==
    /\ page' = IF page = "TableDetails" THEN "TablesChart" ELSE page
    /\ UNCHANGED <<tables, selected_table>>
    /\ Break

\* KeyCode::Down
KeyDown ==
    /\ page' = IF page = "TablesChart" THEN "TableDetails" ELSE page
    /\ UNCHANGED <<tables, selected_table>>
    /\ Break

\* A bug Vacuum could have: the page goes back to the chart but the
\* extracted snapshot is dropped, the View keeping its old tables.
Vacuum_KeepsTables ==
    /\ pc = "input"
    /\ WithLock
    /\ page = "VacuumProgress"
    /\ vacuums < MaxVacuums
    /\ vacuums' = vacuums + 1
    /\ \/ /\ Fail("VacuumFailure")
          /\ UNCHANGED <<view, database, queries>>
       \/ \E db \in Databases :
             /\ database' = db
             /\ queries' = queries + 1
             /\ page' = "TablesChart"
             /\ selected_table' = selected_table
             /\ tables' = tables
             /\ IF query_structure(db).ok THEN Break ELSE Fail("QueryFailure")
    /\ UNCHANGED <<total_tables_size, frame, event, call>>

\* A bug Vacuum could have: the page assignment missing, so that the fresh
\* tables are shown under VacuumProgress.
Vacuum_KeepsPage ==
    /\ pc = "input"
    /\ WithLock
    /\ page = "VacuumProgress"
    /\ vacuums < MaxVacuums
    /\ vacuums' = vacuums + 1
    /\ \/ /\ Fail("VacuumFailure")
          /\ UNCHANGED <<view, database, queries>>
       \/ \E db \in Databases :
             /\ database' = db
             /\ queries' = queries + 1
             /\ page' = page
             /\ selected_table' = selected_table
             /\ LET r == query_structure(db) IN
                IF r.ok THEN tables' = r.tables /\ Break
                ELSE tables' = tables /\ Fail("QueryFailure")
    /\ UNCHANGED <<total_tables_size, frame, event, call>>

\* The top of an inner-loop iteration on the VacuumProgress page: VACUUM,
\* then the page assignment, then the re-extraction, each call with `?`.
Vacuum ==
    /\ pc = "input"
    /\ WithLock
    /\ page = "VacuumProgress"
    /\ vacuums < MaxVacuums
    /\ vacuums' = vacuums + 1
    /\ \/ /\ Fail("VacuumFailure")
          /\ UNCHANGED <<view, database, queries>>
       \/ \E db \in Databases :
             /\ database' = db
             /\ queries' = queries + 1
             /\ page' = "TablesChart"
             /\ selected_table' = selected_table
             /\ LET r == query_structure(db) IN
                IF r.ok THEN tables' = r.tables /\ Break
                ELSE tables' = tables /\ Fail("QueryFailure")
    /\ UNCHANGED <<total_tables_size, frame, event, call>>

\* A bug PollTimeout could have: the `break` placed after the `if` of the
\* poll, so that a timeout leaves the inner loop too.
PollTimeout_Breaks ==
    /\ pc = "input"
    /\ WithLock
    /\ page # "VacuumProgress"
    /\ event' = "Timeout"
    /\ Break
    /\ UNCHANGED <<view, total_tables_size, frame, database, vacuums, queries, call>>

\* event::poll returns Ok(false) after a second: the iteration ends, the
\* guard is dropped and the inner loop goes round.
PollTimeout ==
    /\ pc = "input"
    /\ WithLock
    /\ page # "VacuumProgress"
    /\ event' = "Timeout"
    /\ UNCHANGED <<view, total_tables_size, frame, database, pc, result, vacuums, queries, call>>

\* event::poll or event::read returns an error.
PollFails ==
    /\ pc = "input"
    /\ WithLock
    /\ page # "VacuumProgress"
    /\ event' = "Failed"
    /\ Fail("InputFailure")
    /\ UNCHANGED <<view, total_tables_size, frame, database, vacuums, queries, call>>

\* An event no arm matches: a non-key event or another key.
ReadOther ==
    /\ pc = "input"
    /\ WithLock
    /\ page # "VacuumProgress"
    /\ event' = "Other"
    /\ Break
    /\ UNCHANGED <<view, total_tables_size, frame, database, vacuums, queries, call>>

\* event::read returns Event::Key(key) with key.code = k.
ReadKey(k) ==
    /\ pc = "input"
    /\ WithLock
    /\ page # "VacuumProgress"
    /\ event' = k
    /\ CASE k = "q"     -> KeyQ
         [] k = "v"     -> KeyV
         [] k = "Enter" -> KeyEnter
         [] k = "Left"  -> KeyLeft
         [] k = "Right" -> KeyRight
         [] k = "Up"    -> KeyUp
         [] k = "Down"  -> KeyDown
    /\ UNCHANGED <<total_tables_size, frame, database, vacuums, queries, call>>

\* main: ratatui::restore() and the return of run's result.
Restore ==
    /\ pc = "restore"
    /\ pc' = "exit"
    /\ UNCHANGED <<view, total_tables_size, lock, frame, database, result, event, vacuums, queries, call>>

Next ==
    \/ RunInit
    \/ Draw
    \/ Vacuum
    \/ PollTimeout
    \/ PollFails
    \/ ReadOther
    \/ \E k \in Keys : ReadKey(k)
    \/ Restore

Spec == Init /\ [][Next]_vars

\* The extractor on its own: run's first step on each of ExtractDatabases.
InitExtract ==
    /\ Entry
    /\ database \in ExtractDatabases
    /\ arg = <<>>
    /\ ret = <<>>

NextExtract == RunInit

SpecExtract == InitExtract /\ [][NextExtract]_vars

\* A database without tables.
EmptyDatabase == [dbstat_ok |-> TRUE, tables |-> <<>>]

\* A string in upper case, and with every other character in upper case.
ToUpper(s) ==
    [i \in 1..Len(s) |->
        IF \E j \in 1..26 : LowerChars[j] = s[i]
        THEN UpperChars[CHOOSE j \in 1..26 : LowerChars[j] = s[i]]
        ELSE s[i]]

ToMixed(s) == [i \in 1..Len(s) |-> IF i % 2 = 1 THEN ToUpper(s)[i] ELSE s[i]]

Spellings(s) == {s, ToUpper(s), ToMixed(s)}

\* Every alias of the lists of from_str.
Aliases ==
    UNION { { formats[i].definitions[j] : j \in 1..Len(formats[i].definitions) } :
            i \in 1..Len(formats) }

\* The declared types from_str is called on: the aliases and an unknown
\* type, each in three spellings.
TypeStrings == UNION { Spellings(s) : s \in Aliases \cup {Geometry} }

\* Format::from_str on its own.
InitFormat ==
    /\ Entry
    /\ database = EmptyDatabase
    /\ arg \in TypeStrings
    /\ ret = <<>>

FromStrCall ==
    /\ ret = <<>>
    /\ ret' = <<from_str(arg)>>
    /\ UNCHANGED <<view, total_tables_size, lock, frame, database, pc, result,
                   event, vacuums, queries, arg>>

NextFormat == FromStrCall

SpecFormat == InitFormat /\ [][NextFormat]_vars

\* Every prefix of a string, the empty one included.
Prefixes(s) == { SubSeq(s, 1, n) : n \in 0..Len(s) }

\* A declared type with a length, as in `varchar(8)`.
WithLength(s) == s \o <<"(", "8", ")">>

\* Declared types that are shorter or longer than the aliases: every prefix
\* of every alias as it is and in upper case, every alias with a length, and
\* a type no alias is related to.
PartialTypeStrings ==
    (UNION { Prefixes(s) \cup { ToUpper(t) : t \in Prefixes(s) } \cup {WithLength(s)} :
             s \in Aliases })
    \cup {Geometry}

\* Format::from_str on its own, on the partial declared types.
InitPrefix ==
    /\ Entry
    /\ database = EmptyDatabase
    /\ arg \in PartialTypeStrings
    /\ ret = <<>>

NextPrefix == FromStrCall

SpecPrefix == InitPrefix /\ [][NextPrefix]_vars

\* ------------------------------------------------------------ format_bytes

\* A byte count is written [m, e] for the value m * 1024^e: the code's
\* divisions by 1024.0 are exact in f64 and only lower e. The mantissas and
\* exponents format_bytes is called on keep 100 * m within the integers.
Mantissas == {0, 1, 512, 999, 1000, 1023, 1024, 1152, 999999, 1023999, 1024000}

Exponents == 0..4

ByteCounts == [m : Mantissas, e : Exponents]

RECURSIVE Pow1024(_)
Pow1024(n) == IF n = 0 THEN 1 ELSE 1024 * Pow1024(n - 1)

\* `bytes < 1000.0` with a unit threshold of 1024.
LessThan1000_Binary(bytes) ==
    IF bytes.e > 0 THEN bytes.m = 0 ELSE bytes.m \div Pow1024(0 - bytes.e) < 1024

\* `bytes < 1000.0`: m * 1024^e with e > 0 is below 1000 only for m = 0, and
\* m / 1024^n is below 1000 iff its integer part is.
LessThan1000(bytes) ==
    IF bytes.e > 0 THEN bytes.m = 0 ELSE bytes.m \div Pow1024(0 - bytes.e) < 1000

\* `bytes /= 1024.0`
Divide(bytes) == [m |-> bytes.m, e |-> bytes.e - 1]

\* num / den to the nearest integer, a tie going to the even one, as the
\* formatter rounds the exact value of the float.
RoundHalfEven(num, den) ==
    LET q == num \div den
        r == num % den
    IN  IF r > den - r \/ (r = den - r /\ q % 2 = 1) THEN q + 1 ELSE q

\* `{bytes:.2}`: the printed number in hundredths.
Hundredths(bytes) ==
    IF bytes.m = 0 THEN 0
    ELSE IF bytes.e >= 0
    THEN 100 * bytes.m * Pow1024(bytes.e)
    ELSE RoundHalfEven(100 * bytes.m, Pow1024(0 - bytes.e))

suffixes == <<"B", "KB", "MB", "GB">>

\* The loop of format_bytes from the i-th suffix on, then the TB fall-through.
RECURSIVE format_bytes_loop(_, _)
format_bytes_loop(bytes, i) ==
    IF i > Len(suffixes)
    THEN [hundredths |-> Hundredths(bytes), suffix |-> "TB"]
    ELSE IF LessThan1000(bytes)
         THEN [hundredths |-> Hundredths(bytes), suffix |-> suffixes[i]]
         ELSE format_bytes_loop(Divide(bytes), i + 1)

format_bytes(bytes) == format_bytes_loop(bytes, 1)

\* format_bytes on its own.
InitBytes ==
    /\ Entry
    /\ database = EmptyDatabase
    /\ arg \in ByteCounts
    /\ ret = <<>>

FormatBytesCall ==
    /\ ret = <<>>
    /\ ret' = <<format_bytes(arg)>>
    /\ UNCHANGED <<view, total_tables_size, lock, frame, database, pc, result,
                   event, vacuums, queries, arg>>

NextBytes == FormatBytesCall

SpecBytes == InitBytes /\ [][NextBytes]_vars

\* ------------------------------------------------------------ properties

\* The step is an inner-loop iteration in which event::read returned key k.
Handled(k) == pc = "input" /\ page # "VacuumProgress" /\ event' = k

\* The step is an inner-loop iteration on the VacuumProgress page.
VacuumStep == pc = "input" /\ page = "VacuumProgress"

LastIndex == Len(tables) - 1

\* C1 (as claimed): whenever tables is non-empty, selected_table is a valid
\* index into it, also after the vacuum step has replaced tables by a
\* snapshot with fewer tables.
C1_SelectedInRange ==
    tables # <<>> => selected_table < Len(tables)

\* C2: a Left or Right key is handled with selected_table in [0, len-1] and
\* leaves it there: Left at 0 stays at 0, Right at len-1 stays at len-1, and
\* otherwise the key moves the selection by exactly one; tables is untouched.
C2_NavigationSaturates ==
    [][ /\ (Handled("Left") \/ Handled("Right")) =>
            /\ Len(tables) >= 1
            /\ selected_table \in 0..LastIndex
            /\ selected_table' \in 0..LastIndex
            /\ tables' = tables
        /\ Handled("Left") =>
            selected_table' = IF selected_table = 0 THEN 0 ELSE selected_table - 1
        /\ Handled("Right") =>
            selected_table' = IF selected_table = LastIndex THEN LastIndex
                              ELSE selected_table + 1
      ]_vars

\* C2's case: Right has been handled and the selection is on the last of at
\* least two tables.
C2_Witness ==
    /\ event = "Right"
    /\ pc = "draw"
    /\ Len(tables) >= 2
    /\ selected_table = LastIndex

\* C3: VACUUM is executed only by a step taken on the VacuumProgress page
\* whose last input was Enter; the page becomes VacuumProgress only by Enter
\* handled on VacuumQuestion, and becomes VacuumQuestion only by the key "v".
C3_VacuumGuarded ==
    [][ /\ vacuums' # vacuums =>
            VacuumStep /\ event = "Enter" /\ vacuums' = vacuums + 1
        /\ (page' = "VacuumProgress" /\ page # "VacuumProgress") =>
            Handled("Enter") /\ page = "VacuumQuestion"
        /\ (page' = "VacuumQuestion" /\ page # "VacuumQuestion") =>
            Handled("v")
      ]_vars

\* C3's case: a VACUUM has been executed and has succeeded.
C3_Witness ==
    vacuums >= 1 /\ result = "Running" /\ event = "Enter"

\* What is left alone by a step that touches neither the database nor the
\* session's outcome.
NoDatabaseCall == vacuums' = vacuums /\ queries' = queries /\ database' = database

\* C4 (as claimed): Enter on VacuumQuestion sets the page to VacuumProgress,
\* and the next inner-loop iteration, reading no event, executes VACUUM,
\* re-runs the extractor, replaces tables by the new snapshot and sets the
\* page to TablesChart.
C4_VacuumAlwaysCompletes ==
    [][ /\ (Handled("Enter") /\ page = "VacuumQuestion") =>
            page' = "VacuumProgress"
        /\ VacuumStep =>
            /\ event' = event
            /\ vacuums' = vacuums + 1
            /\ queries' = queries + 1
            /\ page' = "TablesChart"
            /\ tables' = query_structure(database').tables
      ]_vars

\* C4 (amended): Enter on VacuumQuestion sets the page to VacuumProgress and
\* goes to the draw; the draw of that page leaves the View alone; the next
\* inner-loop iteration reads no event and executes VACUUM. If VACUUM and the
\* re-extraction succeed, tables is the new snapshot, the page is TablesChart
\* and selected_table is unchanged. If VACUUM fails, the extractor is not run,
\* the View is untouched and run returns the error; if the re-extraction
\* fails, tables is untouched and run returns the error.
C4_VacuumCompletesOrFails ==
    [][ /\ (Handled("Enter") /\ page = "VacuumQuestion") =>
            /\ page' = "VacuumProgress"
            /\ pc' = "draw"
            /\ UNCHANGED <<tables, selected_table>>
            /\ NoDatabaseCall
        /\ (pc = "draw" /\ page = "VacuumProgress") =>
            /\ pc' \in {"input", "restore"}
            /\ UNCHANGED <<view, event>>
            /\ NoDatabaseCall
        /\ VacuumStep =>
            /\ event' = event
            /\ vacuums' = vacuums + 1
            /\ selected_table' = selected_table
            /\ \/ /\ result' = "Running"
                  /\ pc' = "draw"
                  /\ queries' = queries + 1
                  /\ query_structure(database').ok
                  /\ tables' = query_structure(database').tables
                  /\ page' = "TablesChart"
               \/ /\ result' = "VacuumFailure"
                  /\ pc' = "restore"
                  /\ queries' = queries
                  /\ UNCHANGED <<view, database>>
               \/ /\ result' = "QueryFailure"
                  /\ pc' = "restore"
                  /\ queries' = queries + 1
                  /\ ~query_structure(database').ok
                  /\ tables' = tables
      ]_vars

\* C4's case: a vacuum cycle has completed and has put a snapshot that
\* differs from the one the session started with into the View.
C4_Witness ==
    /\ vacuums >= 1
    /\ pc = "draw"
    /\ page = "TablesChart"
    /\ result = "Running"
    /\ SumTableSizes(tables) # total_tables_size

\* C5: "q" handled on VacuumQuestion sets the page to TablesChart, leaves
\* tables and selected_table alone, executes no database command and does
\* not end the session.
C5_QuestionCancel ==
    [][ (Handled("q") /\ page = "VacuumQuestion") =>
            /\ page' = "TablesChart"
            /\ UNCHANGED <<tables, selected_table>>
            /\ NoDatabaseCall
            /\ result' = "Running"
            /\ pc' = "draw"
      ]_vars

\* C5's case: "q" has been handled and the session goes on.
C5_Witness ==
    event = "q" /\ pc = "draw" /\ result = "Running" /\ tables # <<>>

\* C6: "q" handled on TablesChart or TableDetails makes run return Ok with
\* the View untouched, and once run has returned Ok the only step left is
\* main's restore: no draw, no input iteration and no database command.
C6_QuitTerminates ==
    [][ /\ (Handled("q") /\ page # "VacuumQuestion") =>
            /\ page \in {"TablesChart", "TableDetails"}
            /\ result' = "Ok"
            /\ pc' = "restore"
            /\ UNCHANGED view
            /\ NoDatabaseCall
        /\ result = "Ok" =>
            /\ pc = "restore"
            /\ pc' = "exit"
            /\ UNCHANGED <<view, result, event, total_tables_size>>
            /\ NoDatabaseCall
      ]_vars

\* C6's case: the session has ended by "q" typed on the details page.
C6_Witness ==
    event = "q" /\ result = "Ok" /\ pc = "exit" /\ page = "TableDetails"

\* C7: Down and Enter on TablesChart give TableDetails, Up and Enter on
\* TableDetails give TablesChart, Up on TablesChart and Down on TableDetails
\* keep the page; all of them leave tables and selected_table alone.
C7_PageTransitions ==
    [][ \A k \in {"Up", "Down", "Enter"} :
          (Handled(k) /\ page \in {"TablesChart", "TableDetails"}) =>
            /\ UNCHANGED <<tables, selected_table>>
            /\ page' = CASE page = "TablesChart"  /\ k \in {"Down", "Enter"} -> "TableDetails"
                         [] page = "TableDetails" /\ k \in {"Up", "Enter"}   -> "TablesChart"
                         [] OTHER                                           -> page
      ]_vars

\* C7's case: Up has been handled and the page is the chart.
C7_Witness ==
    event = "Up" /\ pc = "draw" /\ page = "TablesChart" /\ tables # <<>>

\* C8 (as claimed): Left and Right handled on VacuumQuestion leave the View
\* unchanged.
C8_NoNavigationInQuestion ==
    [][ ((Handled("Left") \/ Handled("Right")) /\ page = "VacuumQuestion") =>
            UNCHANGED view
      ]_vars

\* C9 (as claimed): the dashboard is never entered with an empty snapshot:
\* with tables empty, the program is at no draw and no input iteration, and
\* has not panicked in a draw.
C9_NeverEnteredEmpty ==
    tables = <<>> => pc \notin {"draw", "input", "panicked"}

\* C10: a failed VACUUM is not followed by an extraction; a failed
\* extraction (the first or the one after VACUUM) and a failed VACUUM make
\* run return the error; and once run has returned, no database command is
\* executed again and the loop is not re-entered.
C10_FailureIsFatal ==
    [][ /\ (vacuums' # vacuums /\ queries' = queries) =>
            result' = "VacuumFailure" /\ pc' = "restore"
        /\ (queries' # queries /\ ~query_structure(database').ok) =>
            result' = "QueryFailure" /\ pc' = "restore"
        /\ result' = "VacuumFailure" => (queries' = queries /\ database' = database)
        /\ result # "Running" =>
            /\ result' = result
            /\ pc = "restore"
            /\ pc' = "exit"
            /\ NoDatabaseCall
      ]_vars

\* C10's case: VACUUM has failed and the session has ended with its error.
C10_Witness ==
    result = "VacuumFailure" /\ pc = "exit" /\ vacuums >= 1

\* Whether nothing is wrong with a table's content: every query on it
\* succeeds, every row has its fields and no declared type is unknown.
TableHealthy(raw) ==
    /\ raw.rows_ok /\ raw.list_ok /\ raw.info = "ok"
    /\ \A i \in DOMAIN raw.columns :
          raw.columns[i].length_ok /\ raw.columns[i].type # Geometry
    /\ \A i \in DOMAIN raw.indexes : raw.indexes[i].size_ok

DatabaseHealthy ==
    database.dbstat_ok /\ \A i \in DOMAIN database.tables : TableHealthy(database.tables[i])

\* C11: the extractor returns all tables or none. If anything is wrong with
\* the first query or with any table (a failing query, a row without a field,
\* an unknown declared type), query_structure returns an error and no table,
\* however many tables before it were read, and run returns that error with
\* no View built; otherwise it returns every table of the database, in order.
C11_NoPartialSnapshot ==
    /\ query_structure(database).ok = DatabaseHealthy
    /\ ~DatabaseHealthy => query_structure(database).tables = <<>>
    /\ pc # "run" =>
          IF DatabaseHealthy
          THEN /\ result = "Running"
               /\ Len(tables) = Len(database.tables)
               /\ \A i \in DOMAIN tables : tables[i].name = database.tables[i].name
          ELSE /\ result = "QueryFailure"
               /\ pc = "restore"
               /\ tables = <<>>

\* C11's case: the extraction has failed on the second table, after the
\* first one was fully read.
C11_Witness ==
    /\ pc = "restore"
    /\ result = "QueryFailure"
    /\ database.dbstat_ok
    /\ Len(database.tables) >= 2
    /\ TableHealthy(database.tables[1])
    /\ ~TableHealthy(database.tables[2])

\* Whether the tables are in descending order of combined footprint.
SortedDescending(ts) ==
    \A i \in 1..(Len(ts) - 1) : table_size(ts[i]) >= table_size(ts[i + 1])

\* C12 (as claimed): once a draw has completed and before any vacuum cycle,
\* the tables of the View are in descending order of combined footprint.
C12_SortedAtFirstDisplay ==
    (frame.page # "None" /\ vacuums = 0) => SortedDescending(tables)

\* C13: from_str resolves every alias of its lists, in lower, upper and mixed
\* case alike, to the variant whose list declares it, and fails on a type no
\* alias matches ("geometry") in every spelling.
C13_AliasesResolve ==
    ret # <<>> =>
        /\ \A i \in 1..Len(formats) :
           \A j \in 1..Len(formats[i].definitions) :
              arg \in Spellings(formats[i].definitions[j]) =>
                 ret[1] = [ok |-> TRUE, format |-> formats[i].name]
        /\ arg \in Spellings(Geometry) => ~ret[1].ok

\* C13's case: an alias spelt in upper case has been resolved to Text.
C13_Witness ==
    /\ ret # <<>>
    /\ arg = ToUpper(arg)
    /\ arg \notin Aliases
    /\ ret[1] = [ok |-> TRUE, format |-> "Text"]

\* C14 (as claimed): no draw of the TableDetails page divides by a column
\* total or an index total of zero.
C14_NoZeroDivision ==
    ~frame.zero_division

RECURSIVE SumLabels(_)
SumLabels(bars) == IF bars = <<>> THEN 0 ELSE Head(bars).label + SumLabels(Tail(bars))

\* C15 (as claimed): in every draw of the TablesChart page that shows bars,
\* the percentage labels under the bars add up to 100, give or take one unit
\* of rounding per bar.
C15_LabelsSumTo100 ==
    (frame.page = "TablesChart" /\ frame.bars # <<>>) =>
        /\ SumLabels(frame.bars) >= 100 - Len(frame.bars)
        /\ SumLabels(frame.bars) <= 100 + Len(frame.bars)

\* C16 (as claimed): a draw of the TablesChart page marks exactly one bar as
\* selected, the one of the table at selected_table.
C16_OneBarSelected ==
    (pc = "input" /\ frame.page = "TablesChart") =>
        /\ Cardinality({ i \in DOMAIN frame.bars : frame.bars[i].selected }) = 1
        /\ selected_table + 1 \in DOMAIN frame.bars
        /\ frame.bars[selected_table + 1].selected

\* The unit a byte count m * 1024^e belongs to by the thresholds 1000,
\* 1000 * 1024, 1000 * 1024^2, 1000 * 1024^3: the number of thresholds it
\* has reached.
ThresholdsReached(bytes) ==
    Cardinality({ k \in 0..3 :
        IF bytes.e > k THEN bytes.m > 0
        ELSE bytes.m \div Pow1024(k - bytes.e) >= 1000 })

Units == <<"B", "KB", "MB", "GB", "TB">>

\* C17: format_bytes prints a value below 1000 in B, a value from 1000 up to
\* 1000 * 1024 in KB (1000 as 0.98 KB), and so on by factors of 1024, and every
\* value from 1000 * 1024^3 up in TB; the number printed is the value divided
\* by 1024 once per unit passed.
C17_UnitSelection ==
    ret # <<>> =>
        /\ ret[1].suffix = Units[ThresholdsReached(arg) + 1]
        /\ ret[1].hundredths =
              Hundredths([m |-> arg.m, e |-> arg.e - ThresholdsReached(arg)])
        /\ arg = [m |-> 1000, e |-> 0] =>
              ret[1] = [hundredths |-> 98, suffix |-> "KB"]
        /\ arg = [m |-> 1024000, e |-> 0] =>
              ret[1] = [hundredths |-> 98, suffix |-> "MB"]
        /\ arg = [m |-> 512, e |-> 0] =>
              ret[1] = [hundredths |-> 51200, suffix |-> "B"]

C17_Witness ==
    /\ ret # <<>>
    /\ arg = [m |-> 999999, e |-> 4]
    /\ ret[1] = [hundredths |-> 99999900, suffix |-> "TB"]

\* C18 (as claimed): when the poll times out on a page other than
\* VacuumProgress, the loop goes back to the draw.
C18_TimeoutRenders ==
    [][Handled("Timeout") => pc' = "draw"]_vars

\* C18 (amended): when the poll times out on a page other than
\* VacuumProgress, the View and the frame stay as they are, the lock is
\* released and the loop goes back to the poll without a draw; the loop
\* goes to the draw only from the construction of the View, from a vacuum
\* step or from an event that was read.
C18_TimeoutPollsAgain ==
    [][/\ Handled("Timeout") =>
            /\ pc' = "input"
            /\ lock' = FALSE
            /\ UNCHANGED <<view, total_tables_size, frame, result>>
       /\ (pc' = "draw" /\ pc # "draw") =>
            \/ pc = "run"
            \/ VacuumStep
            \/ (pc = "input" /\ event' \in Keys \cup {"Other"})]_vars

C18_Witness ==
    /\ pc = "input"
    /\ event = "Timeout"
    /\ frame # NoFrame
    /\ page = "VacuumQuestion"

\* The step reads an event from the event source.
ReadsEvent == pc = "input" /\ page # "VacuumProgress" /\ event' \in Keys \cup {"Other"}

\* The number of the View transitions a step makes: a page change, a change
\* of selected_table, the end of the session.
Transitions ==
    (IF page' # page THEN 1 ELSE 0)
    + (IF selected_table' # selected_table THEN 1 ELSE 0)
    + (IF pc' = "restore" THEN 1 ELSE 0)

\* C19: a step that reads an event makes at most one transition of the View
\* (a page change, a move of selected_table by one, or the end of the
\* session) and leaves tables alone; it releases the lock and goes to the
\* draw unless it ended the session, and the next event is read only after a
\* draw of the View has completed.
C19_OneTransitionPerEvent ==
    [][/\ ReadsEvent =>
            /\ Transitions <= 1
            /\ selected_table' \in {selected_table - 1, selected_table, selected_table + 1}
            /\ tables' = tables
            /\ lock' = FALSE
            /\ \/ pc' = "draw" /\ result' = "Running"
               \/ pc' = "restore" /\ result' = "Ok" /\ event' = "q"
       /\ (pc = "draw" /\ pc' = "input") =>
            /\ \E width \in Widths, height \in Heights : frame' = Rendered(width, height)
            /\ UNCHANGED view]_vars

C19_Witness ==
    /\ pc = "draw"
    /\ event = "Right"
    /\ selected_table = 1
    /\ page = "TablesChart"
    /\ lock = FALSE
    /\ frame.page = "TablesChart"

\* C20: VACUUM and the re-extraction are one step under the lock of the
\* View, with no draw or input step between them. tables changes, after the
\* View was built, only in that step and together with the page going from
\* VacuumProgress to TablesChart; the step either installs the tables of its
\* own extraction or ends the session; and whenever a draw or a poll is due
\* the lock is free, every VACUUM run has been followed by its extraction
\* and tables is the result of the latest extraction.
C20_VacuumAtomic ==
    /\ [](pc \in {"draw", "input"} =>
            /\ lock = FALSE
            /\ queries = vacuums + 1
            /\ tables = query_structure(database).tables)
    /\ [][/\ (tables' # tables /\ pc # "run") =>
               /\ VacuumStep
               /\ lock = FALSE
               /\ page' = "TablesChart"
          /\ (VacuumStep /\ vacuums' # vacuums) =>
               /\ lock' = FALSE
               /\ \/ pc' = "restore" /\ result' \in {"VacuumFailure", "QueryFailure"}
                  \/ /\ pc' = "draw"
                     /\ page' = "TablesChart"
                     /\ queries' = queries + 1
                     /\ tables' = query_structure(database').tables
          /\ (pc = "draw" /\ pc' = "input") =>
               frame'.page = page /\ page' = page /\ tables' = tables]_vars

C20_Witness ==
    /\ pc = "input"
    /\ vacuums = 1
    /\ queries = 2
    /\ page = "TablesChart"
    /\ frame.page = "TablesChart"
    /\ Len(tables) = 2
    /\ Len(frame.bars) = 2

\* The variants of Format in their declaration order.
Declaration == <<"Integer", "Numeric", "Real", "Boolean", "Text", "Blob">>

\* The variant with this name lists an alias that is a prefix of the
\* lowercased string or has it as a prefix.
VariantMatches(name, s) ==
    \E i \in 1..Len(formats) :
        /\ formats[i].name = name
        /\ \E j \in 1..Len(formats[i].definitions) :
              \/ starts_with(formats[i].definitions[j], to_ascii_lowercase(s))
              \/ starts_with(to_ascii_lowercase(s), formats[i].definitions[j])

\* The variants a string matches.
Matching(s) == { n \in 1..Len(Declaration) : VariantMatches(Declaration[n], s) }

\* C21: a declared type that matches aliases of one or more variants resolves
\* to the first of them in the order Integer, Numeric, Real, Boolean, Text,
\* Blob: "d" to Numeric, "b" to Integer, the empty string to Integer; a type
\* that matches none fails.
C21_FirstDeclaredWins ==
    ret # <<>> =>
        /\ \A n \in Matching(arg) :
              (\A k \in Matching(arg) : n <= k) =>
                 ret[1] = [ok |-> TRUE, format |-> Declaration[n]]
        /\ Matching(arg) = {} => ~ret[1].ok
        /\ arg = <<"d">> => ret[1] = [ok |-> TRUE, format |-> "Numeric"]
        /\ arg = <<"b">> => ret[1] = [ok |-> TRUE, format |-> "Integer"]
        /\ arg = <<>> => ret[1] = [ok |-> TRUE, format |-> "Integer"]

C21_Witness ==
    /\ ret # <<>>
    /\ arg = <<"D">>
    /\ Matching(arg) = {2, 3}
    /\ ret[1] = [ok |-> TRUE, format |-> "Numeric"]

\* C22 (as claimed): whenever a draw is due or has been made, the total the
\* draw divides by is the sum of the footprints of the tables now in the
\* View, also after a vacuum step has replaced them.
C22_TotalFollowsTables ==
    pc \in {"draw", "input"} => total_tables_size = SumTableSizes(tables)

\* C23 (as claimed): the clamp of a bar to 4 rows never takes its y below
\* zero: every bar of a drawn chart lies inside the chart region, whatever the
\* height of the drawing area.
C23_ClampInsideChart ==
    \A i \in DOMAIN frame.bars :
        frame.bars[i].y + frame.bars[i].height <= frame.top

\* C24: the lock of the View is free whenever a draw or an iteration of the
\* input loop is about to take it, and every step that takes it (a draw, a
\* timed-out poll, a read event, a failed poll, a vacuum step), whether it
\* goes on, quits, fails or panics, has released it when it ends.
C24_LockFree ==
    /\ [](pc \in {"draw", "input"} => lock = FALSE)
    /\ [][(pc = "draw" \/ pc = "input") => (lock = FALSE /\ lock' = FALSE)]_vars

C24_Witness ==
    /\ pc = "input"
    /\ event = "Timeout"
    /\ vacuums = 1
    /\ page = "TableDetails"
    /\ lock = FALSE

====
